---- MODULE Spec2Model ----
(***************************************************************************)
(* Model of the okta-jwt-verifier package: the claim rules of rules.go     *)
(* (exact match, contains-all, timestamp window), the verification loop of *)
(* Verifier.ParseAndVerify and the key resolution in front of it.          *)
(*                                                                         *)
(* Texts (error messages) are sequences of string tokens: the             *)
(* concatenation of the tokens is the Go string.  Claim values are records *)
(* tagged with the Go dynamic type that encoding/json decodes them to.     *)
(* Numbers and instants are counted in ticks of 1/TicksPerSecond second.   *)
(***************************************************************************)
EXTENDS Integers, Sequences, FiniteSets, TLC

\* ------------------------------------------------------------------ bounds
MaxArr == 2        \* longest claim array drawn as an input
MaxWant == 2       \* longest wantValues list drawn as an input
MaxNow == 6        \* latest wall-clock reading, in ticks
MaxLeeway == 2     \* largest leeway (seconds) drawn as an input
MaxRules == 2      \* longest rule list passed to ParseAndVerify
MaxInvocations == 2  \* times one rule value is invoked while the clock runs

\* ------------------------------------------------------- time.Duration
\* time.Second, scaled: one second is TicksPerSecond ticks of the clock.
TicksPerSecond == 2
\* Width of time.Duration (int64 in Go), scaled down with the tick.
DurationBits == 16
maxDuration == 2 ^ (DurationBits - 1) - 1
minDuration == -(2 ^ (DurationBits - 1))

\* Duration arithmetic wraps: time.Second * time.Duration(leeway).
WrapDuration(x) ==
    LET m == 2 ^ DurationBits
        r == x % m
    IN  IF r > maxDuration THEN r - m ELSE r

\* Time.Sub saturates at the ends of the Duration range.
Saturate(x) ==
    IF x > maxDuration THEN maxDuration
    ELSE IF x < minDuration THEN minDuration
    ELSE x

\* ------------------------------------------------------- claim values
\* The Go dynamic types (%T) a decoded claim value can have.
TString == "string"
TFloat64 == "float64"
TJSONNumber == "json.Number"
TBool == "bool"
TArray == "[]interface {}"
TNil == "<nil>"

Str(s) == [type |-> TString, s |-> s, n |-> 0, elems |-> <<>>]
Float(n) == [type |-> TFloat64, s |-> "", n |-> n, elems |-> <<>>]
JNum(n) == [type |-> TJSONNumber, s |-> "", n |-> n, elems |-> <<>>]
Bool(b) == [type |-> TBool, s |-> "", n |-> IF b THEN 1 ELSE 0, elems |-> <<>>]
Null == [type |-> TNil, s |-> "", n |-> 0, elems |-> <<>>]
Arr(es) == [type |-> TArray, s |-> "", n |-> 0, elems |-> es]

\* Decimal text of a number counted in ticks (strconv / %v formatting).
FmtTicks(n) ==
    LET a == IF n < 0 THEN -n ELSE n
        whole == ToString(a \div TicksPerSecond)
        frac == IF a % TicksPerSecond = 0
                THEN ""
                ELSE "." \o ToString(a % TicksPerSecond) \o "/" \o ToString(TicksPerSecond)
    IN  (IF n < 0 THEN "-" ELSE "") \o whole \o frac

\* fmt's %v of a scalar value.
Fmt(v) ==
    CASE v.type = TString -> v.s
      [] v.type = TFloat64 -> FmtTicks(v.n)
      [] v.type = TJSONNumber -> FmtTicks(v.n)
      [] v.type = TBool -> IF v.n = 1 THEN "true" ELSE "false"
      [] OTHER -> v.type

\* An error value: err = FALSE is Go's nil error.
Nil == [err |-> FALSE, msg |-> <<>>]
Errorf(tokens) == [err |-> TRUE, msg |-> tokens]

\* ------------------------------------------------------------- rules
\* A ClaimRule is its Key and the variables its Rule closure captured.
ClaimRule(kind, key, T, want, leeway, useJSONNumber, comparer, errMsg) ==
    [kind |-> kind, Key |-> key, T |-> T, want |-> want, leeway |-> leeway,
     useJSONNumber |-> useJSONNumber, comparer |-> comparer, errMsg |-> errMsg]

\* ClaimRule{Key: key} with Rule == nil.
NilRule(key) == ClaimRule("nil", key, TNil, <<>>, 0, FALSE, "", "")

WithCustomClaimExactMatchRule(claim, T, wantValue) ==
    ClaimRule("exact", claim, T, <<wantValue>>, 0, FALSE, "", "")

WithCustomClaimContainsRule(claim, T, wantValues) ==
    ClaimRule("contains", claim, T, wantValues, 0, FALSE, "", "")

withTimestampRule(claim, leeway, useJSONNumber, comparer, errMsg) ==
    ClaimRule("timestamp", claim, TNil, <<>>, leeway, useJSONNumber, comparer, errMsg)

WithIssuerRule(wantIss) == WithCustomClaimExactMatchRule("iss", TString, Str(wantIss))
WithAudienceRule(wantAud) == WithCustomClaimExactMatchRule("aud", TString, Str(wantAud))
WithClientIDRule(wantCid) == WithCustomClaimExactMatchRule("cid", TString, Str(wantCid))

ErrExpired == "token is expired"
ErrIssuedInFuture == "token was issued in the future"

\* The package-level timestamp rules: the decoding mode is in the name.
WithExpirationRule(leeway) ==
    withTimestampRule("exp", leeway, FALSE, "Since", ErrExpired)
WithExpirationRuleJSONNumber(leeway) ==
    withTimestampRule("exp", leeway, TRUE, "Since", ErrExpired)
WithIssuedAtRule(leeway) ==
    withTimestampRule("iat", leeway, FALSE, "Since", ErrIssuedInFuture)
WithIssuedAtRuleJSONNumber(leeway) ==
    withTimestampRule("iat", leeway, TRUE, "Since", ErrIssuedInFuture)

\* Verifier.WithIssuerRule of a Verifier j.
VerifierWithIssuerRuleMutAnyIssuer(j) == WithIssuerRule("")
VerifierWithIssuerRule(j) == WithIssuerRule(j.issuer)

\* Verifier.WithExpirationRule / Verifier.WithIssuedAtRule of a Verifier j.
VerifierWithExpirationRuleMutFloatOnly(j, leeway) ==
    withTimestampRule("exp", leeway, FALSE, "Since", ErrExpired)
VerifierWithExpirationRule(j, leeway) ==
    withTimestampRule("exp", leeway, j.useJSONNumber, "Since", ErrExpired)
VerifierWithIssuedAtRuleMutSince(j, leeway) ==
    withTimestampRule("iat", leeway, j.useJSONNumber, "Since", ErrIssuedInFuture)
VerifierWithIssuedAtRuleMutKeyIss(j, leeway) ==
    withTimestampRule("iss", leeway, j.useJSONNumber, "Until", ErrIssuedInFuture)
VerifierWithIssuedAtRule(j, leeway) ==
    withTimestampRule("iat", leeway, j.useJSONNumber, "Until", ErrIssuedInFuture)

\* The closure of WithCustomClaimExactMatchRule[T]: value.(T), then !=.
ExactMatchMutNoTypeCheck(T, wantValue, value) ==
    IF wantValue # value
    THEN Errorf(<<"expected '", Fmt(wantValue), "' but got '", Fmt(value), "'">>)
    ELSE Nil
ExactMatchRule(T, wantValue, value) ==
    IF value.type # T
    THEN Errorf(<<"expected a ", T, " but got a ", value.type>>)
    ELSE IF wantValue # value
         THEN Errorf(<<"expected '", Fmt(wantValue), "' but got '", Fmt(value), "'">>)
         ELSE Nil

\* The first loop of the contains closure: index of the first element of
\* raw that is not a T (0 when every element converts).
RECURSIVE firstNotT(_, _, _)
firstNotT(raw, T, i) ==
    IF i > Len(raw) THEN 0
    ELSE IF raw[i].type # T THEN i
    ELSE firstNotT(raw, T, i + 1)

\* gotValuesSet after the first loop has run over all of raw.
gotValuesSet(raw) == {raw[i] : i \in 1..Len(raw)}

\* The second loop: append each wantValue that is not in the set.
RECURSIVE missingValues(_, _, _)
missingValues(wantValues, got, i) ==
    IF i > Len(wantValues) THEN <<>>
    ELSE (IF wantValues[i] \notin got THEN <<wantValues[i]>> ELSE <<>>)
         \o missingValues(wantValues, got, i + 1)

\* strings.Builder: 'v0' then , 'v' for each further value.
RECURSIVE builder(_, _)
builder(missing, i) ==
    IF i > Len(missing) THEN <<>>
    ELSE <<(IF i = 1 THEN "'" ELSE ", '"), Fmt(missing[i]), "'">>
         \o builder(missing, i + 1)

\* The closure of WithCustomClaimContainsRule[T].
ContainsRuleMutAny(T, wantValues, value) ==
    IF value.type # TArray
    THEN Errorf(<<"expected an array but got a ", value.type>>)
    ELSE IF firstNotT(value.elems, T, 1) # 0
    THEN Errorf(<<"value of array element is not a ", T>>)
    ELSE IF \E i \in 1..Len(wantValues) : wantValues[i] \in gotValuesSet(value.elems)
    THEN Nil
    ELSE IF wantValues = <<>> THEN Nil
    ELSE Errorf(<<"missing value(s): ">> \o builder(wantValues, 1))
RECURSIVE scanUntilFound(_, _, _, _)
scanUntilFound(raw, T, wantValues, i) ==
    IF i > Len(raw)
    THEN LET missing == missingValues(wantValues, gotValuesSet(raw), 1)
         IN  IF Len(missing) = 0 THEN Nil
             ELSE Errorf(<<"missing value(s): ">> \o builder(missing, 1))
    ELSE IF raw[i].type # T
    THEN Errorf(<<"value of array element is not a ", T>>)
    ELSE IF \A k \in 1..Len(wantValues) : \E m \in 1..i : raw[m] = wantValues[k]
    THEN Nil
    ELSE scanUntilFound(raw, T, wantValues, i + 1)
ContainsRuleMutEarlyReturn(T, wantValues, value) ==
    IF value.type # TArray
    THEN Errorf(<<"expected an array but got a ", value.type>>)
    ELSE scanUntilFound(value.elems, T, wantValues, 1)
ContainsRuleMutNoElemCheck(T, wantValues, value) ==
    IF value.type # TArray
    THEN Nil
    ELSE LET missing == missingValues(wantValues, gotValuesSet(value.elems), 1)
         IN  IF Len(missing) = 0 THEN Nil
             ELSE Errorf(<<"missing value(s): ">> \o builder(missing, 1))
ContainsRule(T, wantValues, value) ==
    IF value.type # TArray
    THEN Errorf(<<"expected an array but got a ", value.type>>)
    ELSE IF firstNotT(value.elems, T, 1) # 0
    THEN Errorf(<<"value of array element is not a ", T>>)
    ELSE LET missing == missingValues(wantValues, gotValuesSet(value.elems), 1)
         IN  IF Len(missing) = 0 THEN Nil
             ELSE Errorf(<<"missing value(s): ">> \o builder(missing, 1))

\* int64(f) of a float64 counted in ticks: whole seconds, toward zero.
Int64OfFloat(n) ==
    IF n >= 0 THEN n \div TicksPerSecond ELSE -((-n) \div TicksPerSecond)

\* json.Number.Int64 is strconv.ParseInt of the literal: a literal with a
\* fraction is a syntax error.
IsIntLiteral(n) == n % TicksPerSecond = 0

\* parseTimestamp: [err, msg] plus ts, the instant in ticks.
parseTimestamp(value, useJSONNumber) ==
    IF useJSONNumber
    THEN IF value.type # TJSONNumber
         THEN [err |-> TRUE, ts |-> 0,
               msg |-> <<"expected a ", TJSONNumber, " but got a ", value.type>>]
         ELSE IF ~IsIntLiteral(value.n)
         THEN [err |-> TRUE, ts |-> 0,
               msg |-> <<"strconv.ParseInt: parsing ", FmtTicks(value.n), ": invalid syntax">>]
         ELSE [err |-> FALSE, msg |-> <<>>,
               ts |-> (value.n \div TicksPerSecond) * TicksPerSecond]
    ELSE IF value.type # TFloat64
         THEN [err |-> TRUE, ts |-> 0,
               msg |-> <<"expected a ", TFloat64, " but got a ", value.type>>]
         ELSE [err |-> FALSE, msg |-> <<>>,
               ts |-> Int64OfFloat(value.n) * TicksPerSecond]

\* time.Since(ts) and time.Until(ts) with the wall clock reading now.
Since(ts, now) == Saturate(now - ts)
Until(ts, now) == Saturate(ts - now)
comparerOf(comparer, ts, now) ==
    IF comparer = "Since" THEN Since(ts, now) ELSE Until(ts, now)

\* The closure of withTimestampRule, run when the wall clock reads now.
TimestampRuleMutNotStrict(rule, value, now) ==
    LET p == parseTimestamp(value, rule.useJSONNumber)
    IN  IF p.err THEN Errorf(p.msg)
        ELSE IF comparerOf(rule.comparer, p.ts, now)
                    >= WrapDuration(TicksPerSecond * rule.leeway)
        THEN Errorf(<<rule.errMsg>>)
        ELSE Nil
TimestampRuleMutNoSecond(rule, value, now) ==
    LET p == parseTimestamp(value, rule.useJSONNumber)
    IN  IF p.err THEN Errorf(p.msg)
        ELSE IF comparerOf(rule.comparer, p.ts, now) > WrapDuration(rule.leeway)
        THEN Errorf(<<rule.errMsg>>)
        ELSE Nil
TimestampRule(rule, value, now) ==
    LET p == parseTimestamp(value, rule.useJSONNumber)
    IN  IF p.err THEN Errorf(p.msg)
        ELSE IF comparerOf(rule.comparer, p.ts, now)
                    > WrapDuration(TicksPerSecond * rule.leeway)
        THEN Errorf(<<rule.errMsg>>)
        ELSE Nil

\* rule.Rule(value) for a rule whose Rule is not nil.
RuleCall(rule, value, now) ==
    CASE rule.kind = "exact" -> ExactMatchRule(rule.T, rule.want[1], value)
      [] rule.kind = "contains" -> ContainsRule(rule.T, rule.want, value)
      [] rule.kind = "timestamp" -> TimestampRule(rule, value, now)


\* ------------------------------------------------------------- state
VARIABLES
    rule,      \* a ClaimRule built by one of the constructors
    value,     \* the claim value handed to rule.Rule
    now,       \* the wall clock (time.Now), in ticks
    result,    \* the error rule.Rule(value) returned
    rpc,       \* "built" before rule.Rule(value) has run, "returned" after
    j,         \* the Verifier: issuer, useJSONNumber, the kind of its cache
    cache,     \* what the Verifier's cache holds under cacheKeyKeyfunc
    call,      \* the frame of each ParseAndVerify call
    history    \* the calls of rule.Rule made so far: clock readings and outcome

vars == <<rule, value, now, result, rpc, j, cache, call, history>>

\* ------------------------------------------ inputs of a direct rule call
Strs == {"a", "b", "c"}
Nums == {2, 3}
Scalars == {Str(s) : s \in Strs} \cup {Float(n) : n \in Nums}

\* All sequences over S of length at most n.
SeqUpTo(S, n) == UNION {[1..k -> S] : k \in 0..n}

OtherValues == {JNum(2), Bool(TRUE), Null}
Values == Scalars \cup OtherValues \cup {Arr(es) : es \in SeqUpTo(Scalars, MaxArr)}

ExactRules ==
    {WithCustomClaimExactMatchRule("foo", TString, Str(s)) : s \in Strs}
    \cup {WithCustomClaimExactMatchRule("foo", TFloat64, Float(n)) : n \in Nums}
    \cup {WithAudienceRule("a"), WithClientIDRule("a"), WithIssuerRule("a")}

ContainsRules ==
    {WithCustomClaimContainsRule("foo", TString, w) :
        w \in SeqUpTo({Str(s) : s \in Strs}, MaxWant)}
    \cup {WithCustomClaimContainsRule("foo", TFloat64, w) :
        w \in SeqUpTo({Float(n) : n \in Nums}, MaxWant)}

\* The Verifier's now field: time.Now (as New sets it) or, as the tests set
\* it, a function that returns one fixed instant.
TimeNow == [fixed |-> FALSE, t |-> 0]
FixedNow(t) == [fixed |-> TRUE, t |-> t]
\* j.now() when the wall clock reads clock.
nowOf(v, clock) == IF v.now.fixed THEN v.now.t ELSE clock

\* New(issuer, opts...): WithUseJSONNumber and WithCache are the options.
New(issuer, useJSONNumber, cacheKind) ==
    [issuer |-> issuer, useJSONNumber |-> useJSONNumber, cacheKind |-> cacheKind,
     now |-> TimeNow]
Verifiers == {New("a", u, k) : u \in BOOLEAN, k \in {"default", "nop"}}

\* The timestamp rules a Verifier v builds, and the package-level ones.
VerifierTimestampRules(v) ==
    {VerifierWithExpirationRule(v, l) : l \in 0..MaxLeeway}
    \cup {VerifierWithIssuedAtRule(v, l) : l \in 0..MaxLeeway}
PackageTimestampRules ==
    {WithExpirationRule(l) : l \in 0..MaxLeeway}
    \cup {WithExpirationRuleJSONNumber(l) : l \in 0..MaxLeeway}
    \cup {WithIssuedAtRule(l) : l \in 0..MaxLeeway}
    \cup {WithIssuedAtRuleJSONNumber(l) : l \in 0..MaxLeeway}
TimestampRules ==
    PackageTimestampRules \cup UNION {VerifierTimestampRules(v) : v \in Verifiers}

\* Claim values offered to a timestamp rule: numbers on both sides of every
\* clock reading, whole and fractional, in both decodings, and non-numbers.
TimestampValues ==
    {Float(n) : n \in -1..(MaxNow + 3 * TicksPerSecond)}
    \cup {JNum(n) : n \in -1..(MaxNow + 3 * TicksPerSecond)}
    \cup {Str("a"), Null}


\* The calls of ParseAndVerify the model follows.
NumCalls == 1
Calls == 1..NumCalls

EmptyMap == [k \in {} |-> Null]
NoToken == [malformed |-> TRUE, kid |-> "", payload |-> EmptyMap]
NoRet == [jwt |-> [isZero |-> TRUE, Claims |-> EmptyMap], err |-> Nil]
\* No *http.Response received yet.
NoResp == [transportErr |-> FALSE, status |-> 0, readable |-> FALSE, body |-> ""]

\* The frame of a ParseAndVerify call: its arguments, its position, its
\* locals (resp is the last response it received, setKey the key it passed
\* to cache.Set), what it did so far (log, evaluated, invoked) and what it
\* returned.
Frame(pc, token, rules) ==
    [pc |-> pc, token |-> token, rules |-> rules, log |-> <<>>,
     resp |-> NoResp, setKey |-> "", jwksURI |-> "", data |-> "", kf |-> {}, claims |-> EmptyMap,
     i |-> 1, evaluated |-> <<>>, invoked |-> <<>>, verificationErrors |-> <<>>,
     ret |-> NoRet]
NoCall == Frame("idle", NoToken, <<>>)

InitRule ==
    /\ rpc = "built"
    /\ result = Nil
    /\ j \in {New(s, u, "nop") : s \in {"a", "b"}, u \in BOOLEAN}
    /\ \/ /\ rule \in ExactRules \cup ContainsRules \cup {VerifierWithIssuerRule(j)}
          /\ value \in Values
          /\ now = 0
       \/ /\ rule \in PackageTimestampRules \cup VerifierTimestampRules(j)
          /\ value \in TimestampValues
          /\ now \in 0..MaxNow
    /\ cache = [found |-> FALSE, keys |-> {}]
    /\ call = [c \in Calls |-> NoCall]
    /\ history = <<>>

\* rule.Rule(value), as rules_test.go calls it.
Invoke ==
    /\ rpc = "built"
    /\ result' = RuleCall(rule, value, now)
    /\ rpc' = "returned"
    /\ history' = Append(history, [clock |-> now, jnow |-> nowOf(j, now),
                                    result |-> RuleCall(rule, value, now)])
    /\ UNCHANGED <<rule, value, now, j, cache, call>>

NextRule == Invoke

SpecRule == InitRule /\ [][NextRule]_vars

\* ------------------------------- a rule reused while the wall clock runs
\* A Verifier whose now field is time.Now, or returns the instant at which
\* the Verifier was set up (verifier.now = func() { return testTimestamp });
\* one of its timestamp rules; a claim value.
InitClock ==
    /\ rpc = "built"
    /\ result = Nil
    /\ now \in 0..MaxNow
    /\ j \in {[v EXCEPT !.now = p] :
                 v \in {w \in Verifiers : w.cacheKind = "nop"},
                 p \in {TimeNow, FixedNow(now)}}
    /\ rule \in VerifierTimestampRules(j)
    /\ value \in TimestampValues
    /\ cache = [found |-> FALSE, keys |-> {}]
    /\ call = [c \in Calls |-> NoCall]
    /\ history = <<>>

\* Time passes: the wall clock (time.Now) advances by one tick.
Tick ==
    /\ now < MaxNow
    /\ now' = now + 1
    /\ UNCHANGED <<rule, value, result, rpc, j, cache, call, history>>

\* The same rule value is handed to another verification.
Again ==
    /\ rpc = "returned"
    /\ Len(history) < MaxInvocations
    /\ rpc' = "built"
    /\ UNCHANGED <<rule, value, now, result, j, cache, call, history>>

NextClock == Invoke \/ Tick \/ Again

SpecClock == InitClock /\ [][NextClock]_vars

\* ------------------------------------ timestamp rules with any leeway
\* The least leeway for which time.Second * time.Duration(leeway) leaves
\* the Duration range, and the leeways offered to the constructors: the
\* small ones, and WrapLeeway and its successor.
WrapLeeway == (maxDuration + 1) \div TicksPerSecond
Leeways == (0..MaxLeeway) \cup {WrapLeeway, WrapLeeway + 1}

LeewayRules(v) ==
    {WithExpirationRule(l) : l \in Leeways}
    \cup {WithExpirationRuleJSONNumber(l) : l \in Leeways}
    \cup {VerifierWithExpirationRule(v, l) : l \in Leeways}
    \cup {VerifierWithIssuedAtRule(v, l) : l \in Leeways}

InitLeeway ==
    /\ rpc = "built"
    /\ result = Nil
    /\ now \in 0..MaxNow
    /\ j \in {New("a", u, "nop") : u \in BOOLEAN}
    /\ rule \in LeewayRules(j)
    /\ value \in TimestampValues
    /\ cache = [found |-> FALSE, keys |-> {}]
    /\ call = [c \in Calls |-> NoCall]
    /\ history = <<>>

NextLeeway == Invoke

SpecLeeway == InitLeeway /\ [][NextLeeway]_vars


\* ------------------------------------------------- key resolution
cacheKeyKeyfunc == "key_func"
StatusOK == 200
StatusInternalServerError == 500

\* DefaultCache keeps what Set stores until it expires; NopCache keeps nothing.
NoEntry == [found |-> FALSE, keys |-> {}]
cacheGet(kind, c) == IF kind = "nop" THEN NoEntry ELSE c
cacheSet(kind, c, fn) == IF kind = "nop" THEN c ELSE [found |-> TRUE, keys |-> fn]

\* What the issuer and the JWKS endpoint may answer.
GoodURI == "https://issuer/keys"
DiscoveryBodies == {"{jwks_uri:https://issuer/keys}", "{}", "{jwks_uri:1234}", "internal server error"}
JWKSBodies == {"{keys:[k1]}", "{keys:[k2]}", "not json", "internal server error"}
\* A response is a status and a body that io.ReadAll can read, or a status
\* and a body that it cannot (nothing of it is seen); or there is none.
Responses(bodies) ==
    [transportErr : {FALSE}, status : {StatusOK, StatusInternalServerError},
     readable : {TRUE}, body : bodies]
    \cup [transportErr : {FALSE}, status : {StatusOK, StatusInternalServerError},
          readable : {FALSE}, body : {""}]
    \cup {[transportErr |-> TRUE, status |-> 0, readable |-> FALSE, body |-> ""]}

\* The text both fetches give a response whose status is not 200.
statusErrorMutNoBody(resp) ==
    <<"expected status code ", ToString(StatusOK), " but got status code ",
      ToString(resp.status)>>
statusError(resp) ==
    IF resp.readable
    THEN <<"expected status code ", ToString(StatusOK), " but got status code ",
           ToString(resp.status), " with data: ", resp.body>>
    ELSE <<"expected status code ", ToString(StatusOK), " but got status code ",
           ToString(resp.status)>>

\* getJWKSURI, given the issuer's response: [err, msg, uri].
getJWKSURI(resp) ==
    IF resp.transportErr
    THEN [err |-> TRUE, uri |-> "", msg |-> <<"making http request: ", "transport error">>]
    ELSE IF resp.status # StatusOK
    THEN [err |-> TRUE, uri |-> "", msg |-> statusError(resp)]
    ELSE IF ~resp.readable \/ resp.body \notin {"{jwks_uri:https://issuer/keys}", "{}"}
    THEN [err |-> TRUE, uri |-> "", msg |-> <<"json-decoding response body: ", "decode error">>]
    ELSE [err |-> FALSE, msg |-> <<>>,
          uri |-> IF resp.body = "{}" THEN "" ELSE GoodURI]

\* getJWKS, given the URI and the endpoint's response: [err, msg, data].
\* A request to the empty URI never leaves the client.
getJWKS(jwksURI, resp) ==
    IF resp.transportErr \/ jwksURI # GoodURI
    THEN [err |-> TRUE, data |-> "", msg |-> <<"making http request: ", "transport error">>]
    ELSE IF resp.status # StatusOK
    THEN [err |-> TRUE, data |-> "", msg |-> statusError(resp)]
    ELSE IF ~resp.readable
    THEN [err |-> TRUE, data |-> "", msg |-> <<"reading response body: ", "read error">>]
    ELSE [err |-> FALSE, msg |-> <<>>, data |-> resp.body]

\* keyfunc.NewJWKSetJSON(data): the key ids of the set, or an error.
NewJWKSetJSON(data) ==
    CASE data = "{keys:[k1]}" -> [err |-> FALSE, msg |-> <<>>, keys |-> {"k1"}]
      [] data = "{keys:[k2]}" -> [err |-> FALSE, msg |-> <<>>, keys |-> {"k2"}]
      [] OTHER -> [err |-> TRUE, keys |-> {}, msg |-> <<"could not unmarshal JWK Set JSON">>]

\* ------------------------------------------------------ token parsing
\* A JSON number of a token payload, before it is decoded.
TNumber == "number"
Number(n) == [type |-> TNumber, s |-> "", n |-> n, elems |-> <<>>]

\* encoding/json with or without UseNumber.
decodeValue(v, useJSONNumber) ==
    IF v.type = TNumber
    THEN IF useJSONNumber THEN JNum(v.n) ELSE Float(v.n)
    ELSE v
decodeClaims(payload, useJSONNumber) ==
    [k \in DOMAIN payload |-> decodeValue(payload[k], useJSONNumber)]

\* The options parseJWT hands to jwt.Parse.
parseOptionsMutValidate(v) ==
    IF v.useJSONNumber THEN {"WithJSONNumber"} ELSE {}
parseOptions(v) ==
    {"WithoutClaimsValidation"}
    \cup (IF v.useJSONNumber THEN {"WithJSONNumber"} ELSE {})

\* jwt.Parse(tokenString, kf, options...): [err, msg, claims].  Without the
\* option WithoutClaimsValidation the parser rejects a token whose exp has
\* passed.
jwtParse(token, kf, options, t) ==
    IF token.malformed
    THEN [err |-> TRUE, claims |-> EmptyMap, msg |-> <<"token is malformed">>]
    ELSE IF token.kid \notin kf
    THEN [err |-> TRUE, claims |-> EmptyMap,
          msg |-> <<"token is unverifiable: ", "error while executing keyfunc">>]
    ELSE IF /\ "WithoutClaimsValidation" \notin options
            /\ "exp" \in DOMAIN token.payload
            /\ token.payload["exp"].type = TNumber
            /\ t > token.payload["exp"].n
    THEN [err |-> TRUE, claims |-> EmptyMap,
          msg |-> <<"token has invalid claims: ", "token is expired">>]
    ELSE [err |-> FALSE, msg |-> <<>>,
          claims |-> decodeClaims(token.payload, "WithJSONNumber" \in options)]

\* ------------------------------------------------------ ParseAndVerify
\* strings.Join(elems, sep) over token sequences.
RECURSIVE Join(_, _)
Join(elems, sep) ==
    IF Len(elems) = 0 THEN <<>>
    ELSE IF Len(elems) = 1 THEN elems[1]
    ELSE elems[1] \o <<sep>> \o Join(Tail(elems), sep)

\* JWT{} and JWT{Claims: claims}.
EmptyJWT == [isZero |-> TRUE, Claims |-> EmptyMap]
JWT(claims) == [isZero |-> FALSE, Claims |-> claims]

\* One iteration of the loop over rules: the frame's loop variables after
\* the body has run for rules[i].
loopBodyMutNoContinue(f, t) ==
    LET r == f.rules[f.i]
        found == r.Key \in DOMAIN f.claims
        v == IF found THEN f.claims[r.Key] ELSE Null
        e == IF r.kind = "nil" THEN Nil ELSE RuleCall(r, v, t)
    IN  [f EXCEPT !.i = f.i + 1,
                  !.evaluated = Append(@, f.i),
                  !.invoked = IF r.kind = "nil" THEN @ ELSE Append(@, [i |-> f.i, v |-> v]),
                  !.verificationErrors =
                      (IF found THEN @ ELSE Append(@, <<"claim '", r.Key, "' not found">>))
                      \o (IF e.err THEN <<<<"claim '", r.Key, "' is invalid: ">> \o e.msg>>
                          ELSE <<>>)]
loopBodyMutFailFast(f, t) ==
    LET r == f.rules[f.i]
    IN  IF r.Key \notin DOMAIN f.claims
        THEN [f EXCEPT !.i = Len(f.rules) + 1,
                       !.evaluated = Append(@, f.i),
                       !.verificationErrors = Append(@, <<"claim '", r.Key, "' not found">>)]
        ELSE IF r.kind = "nil"
        THEN [f EXCEPT !.i = f.i + 1, !.evaluated = Append(@, f.i)]
        ELSE LET v == f.claims[r.Key]
                 e == RuleCall(r, v, t)
             IN  [f EXCEPT !.i = IF e.err THEN Len(f.rules) + 1 ELSE f.i + 1,
                           !.evaluated = Append(@, f.i),
                           !.invoked = Append(@, [i |-> f.i, v |-> v]),
                           !.verificationErrors =
                               IF e.err
                               THEN Append(@, <<"claim '", r.Key, "' is invalid: ">> \o e.msg)
                               ELSE @]
loopBodyMutPrepend(f, t) ==
    LET r == f.rules[f.i]
    IN  IF r.Key \notin DOMAIN f.claims
        THEN [f EXCEPT !.i = f.i + 1,
                       !.evaluated = Append(@, f.i),
                       !.verificationErrors = <<<<"claim '", r.Key, "' not found">>>> \o @]
        ELSE IF r.kind = "nil"
        THEN [f EXCEPT !.i = f.i + 1, !.evaluated = Append(@, f.i)]
        ELSE LET v == f.claims[r.Key]
                 e == RuleCall(r, v, t)
             IN  [f EXCEPT !.i = f.i + 1,
                           !.evaluated = Append(@, f.i),
                           !.invoked = Append(@, [i |-> f.i, v |-> v]),
                           !.verificationErrors =
                               IF e.err
                               THEN <<<<"claim '", r.Key, "' is invalid: ">> \o e.msg>> \o @
                               ELSE @]
loopBodyMutNilFirst(f, t) ==
    LET r == f.rules[f.i]
    IN  IF r.kind = "nil"
        THEN [f EXCEPT !.i = f.i + 1, !.evaluated = Append(@, f.i)]
        ELSE IF r.Key \notin DOMAIN f.claims
        THEN [f EXCEPT !.i = f.i + 1,
                       !.evaluated = Append(@, f.i),
                       !.verificationErrors = Append(@, <<"claim '", r.Key, "' not found">>)]
        ELSE LET v == f.claims[r.Key]
                 e == RuleCall(r, v, t)
             IN  [f EXCEPT !.i = f.i + 1,
                           !.evaluated = Append(@, f.i),
                           !.invoked = Append(@, [i |-> f.i, v |-> v]),
                           !.verificationErrors =
                               IF e.err
                               THEN Append(@, <<"claim '", r.Key, "' is invalid: ">> \o e.msg)
                               ELSE @]
loopBodyMutConsume(f, t) ==
    LET r == f.rules[f.i]
    IN  IF r.Key \notin DOMAIN f.claims
        THEN [f EXCEPT !.i = f.i + 1,
                       !.evaluated = Append(@, f.i),
                       !.verificationErrors = Append(@, <<"claim '", r.Key, "' not found">>)]
        ELSE IF r.kind = "nil"
        THEN [f EXCEPT !.i = f.i + 1, !.evaluated = Append(@, f.i)]
        ELSE LET v == f.claims[r.Key]
                 e == RuleCall(r, v, t)
             IN  [f EXCEPT !.i = f.i + 1,
                           !.claims = [k \in DOMAIN f.claims \ {r.Key} |-> f.claims[k]],
                           !.evaluated = Append(@, f.i),
                           !.invoked = Append(@, [i |-> f.i, v |-> v]),
                           !.verificationErrors =
                               IF e.err
                               THEN Append(@, <<"claim '", r.Key, "' is invalid: ">> \o e.msg)
                               ELSE @]
loopBody(f, t) ==
    LET r == f.rules[f.i]
    IN  IF r.Key \notin DOMAIN f.claims
        THEN [f EXCEPT !.i = f.i + 1,
                       !.evaluated = Append(@, f.i),
                       !.verificationErrors = Append(@, <<"claim '", r.Key, "' not found">>)]
        ELSE IF r.kind = "nil"
        THEN [f EXCEPT !.i = f.i + 1, !.evaluated = Append(@, f.i)]
        ELSE LET v == f.claims[r.Key]
                 e == RuleCall(r, v, t)
             IN  [f EXCEPT !.i = f.i + 1,
                           !.evaluated = Append(@, f.i),
                           !.invoked = Append(@, [i |-> f.i, v |-> v]),
                           !.verificationErrors =
                               IF e.err
                               THEN Append(@, <<"claim '", r.Key, "' is invalid: ">> \o e.msg)
                               ELSE @]

\* The frame after parseJWT has returned p.
parseStepMutIgnoreErr(f, p) ==
    [f EXCEPT !.pc = "rules", !.claims = p.claims]
parseStep(f, p) ==
    IF p.err
    THEN [f EXCEPT !.pc = "done",
                   !.ret = [jwt |-> EmptyJWT, err |-> Errorf(<<"parsing jwt: ">> \o p.msg)]]
    ELSE [f EXCEPT !.pc = "rules", !.claims = p.claims]

\* What ParseAndVerify returns once the loop is over.
returnOf(f) ==
    IF Len(f.verificationErrors) # 0
    THEN [jwt |-> EmptyJWT, err |-> Errorf(Join(f.verificationErrors, "; "))]
    ELSE [jwt |-> JWT(f.claims), err |-> Nil]

\* A call that fails in getKeyfunc.
failKeyfunc(f, prefix, msg) ==
    [f EXCEPT !.pc = "done",
              !.ret = [jwt |-> EmptyJWT, err |-> Errorf(<<prefix>> \o msg)]]

\* ------------------------------------------- inputs of ParseAndVerify
Past == 0
Future == MaxNow + TicksPerSecond
Optional(k, vs) == {EmptyMap} \cup {[x \in {k} |-> v] : v \in vs}
Merge(f, g) == [k \in DOMAIN f \cup DOMAIN g |-> IF k \in DOMAIN f THEN f[k] ELSE g[k]]
Payloads ==
    {Merge(a, Merge(b, e)) :
        a \in Optional("aud", {Str("foo"), Str("Tashuan"),
                                Arr(<<Str("bar"), Str("foo")>>)}),
        b \in Optional("sub", {Str("bar")}),
        e \in Optional("exp", {Number(Past), Number(Future)})}
Tokens ==
    {[malformed |-> FALSE, kid |-> "k1", payload |-> p] : p \in Payloads}
    \cup {[malformed |-> FALSE, kid |-> "k2", payload |-> EmptyMap], NoToken}

RulesOf(v) ==
    {WithAudienceRule("foo"),
     WithCustomClaimExactMatchRule("sub", TString, Str("Weidong")),
     WithCustomClaimContainsRule("aud", TString, <<Str("foo")>>),
     WithCustomClaimExactMatchRule("", TString, Str("foo")),
     NilRule("aud"),
     NilRule("cid"),
     VerifierWithExpirationRule(v, 0)}

\* ---------------------------------------------------------- actions
Set(c, f) == call' = [call EXCEPT ![c] = f]

\* ParseAndVerify(ctx, token, rules...) is called.
Call(c) ==
    /\ call[c].pc = "idle"
    /\ \E token \in Tokens, rules \in SeqUpTo(RulesOf(j), MaxRules) :
          Set(c, Frame("getKeyfunc", token, rules))
    /\ UNCHANGED <<rule, value, now, result, rpc, j, cache, history>>

\* getKeyfunc: j.cache.Get(ctx, cacheKeyKeyfunc).
CacheGetMutRefetch(c) ==
    /\ call[c].pc = "getKeyfunc"
    /\ LET e == cacheGet(j.cacheKind, cache)
       IN  Set(c, [call[c] EXCEPT !.pc = "getJWKSURI",
                                   !.log = Append(@, IF e.found THEN "cache.Get:hit"
                                                                ELSE "cache.Get:miss")])
    /\ UNCHANGED <<rule, value, now, result, rpc, j, cache, history>>
CacheGet(c) ==
    /\ call[c].pc = "getKeyfunc"
    /\ LET e == cacheGet(j.cacheKind, cache)
       IN  IF e.found
           THEN Set(c, [call[c] EXCEPT !.pc = "parseJWT", !.kf = e.keys,
                                        !.log = Append(@, "cache.Get:hit")])
           ELSE Set(c, [call[c] EXCEPT !.pc = "getJWKSURI",
                                        !.log = Append(@, "cache.Get:miss")])
    /\ UNCHANGED <<rule, value, now, result, rpc, j, cache, history>>

\* getKeyfunc: j.getJWKSURI(ctx), the discovery fetch.
FetchJWKSURI(c) ==
    /\ call[c].pc = "getJWKSURI"
    /\ \E resp \in Responses(DiscoveryBodies) :
          LET r == getJWKSURI(resp)
              f == [call[c] EXCEPT !.log = Append(@, "GET discovery"), !.resp = resp]
          IN  IF r.err
              THEN Set(c, failKeyfunc(f, "getting jwks uri: ", r.msg))
              ELSE Set(c, [f EXCEPT !.pc = "getJWKS", !.jwksURI = r.uri])
    /\ UNCHANGED <<rule, value, now, result, rpc, j, cache, history>>

\* getKeyfunc: j.getJWKS(ctx, jwksURI), the JWKS fetch.
FetchJWKSMutEvict(c) ==
    /\ call[c].pc = "getJWKS"
    /\ \E resp \in IF call[c].jwksURI = GoodURI THEN Responses(JWKSBodies)
                     ELSE {r \in Responses(JWKSBodies) : r.transportErr} :
          LET r == getJWKS(call[c].jwksURI, resp)
              f == [call[c] EXCEPT !.log = Append(@, "GET jwks"), !.resp = resp]
          IN  IF r.err
              THEN /\ Set(c, failKeyfunc(f, "getting jwks: ", r.msg))
                   /\ cache' = NoEntry
              ELSE /\ Set(c, [f EXCEPT !.pc = "NewJWKSetJSON", !.data = r.data])
                   /\ cache' = cache
    /\ UNCHANGED <<rule, value, now, result, rpc, j, history>>
FetchJWKS(c) ==
    /\ call[c].pc = "getJWKS"
    /\ \E resp \in IF call[c].jwksURI = GoodURI THEN Responses(JWKSBodies)
                     ELSE {r \in Responses(JWKSBodies) : r.transportErr} :
          LET r == getJWKS(call[c].jwksURI, resp)
              f == [call[c] EXCEPT !.log = Append(@, "GET jwks"), !.resp = resp]
          IN  IF r.err
              THEN Set(c, failKeyfunc(f, "getting jwks: ", r.msg))
              ELSE Set(c, [f EXCEPT !.pc = "NewJWKSetJSON", !.data = r.data])
    /\ UNCHANGED <<rule, value, now, result, rpc, j, cache, history>>

\* getKeyfunc: keyfunc.NewJWKSetJSON(data), then
\* j.cache.Set(ctx, cacheKeyKeyfunc, fn.Keyfunc).
NewKeyfuncMutSetOnError(c) ==
    /\ call[c].pc = "NewJWKSetJSON"
    /\ LET fn == NewJWKSetJSON(call[c].data)
           f == [call[c] EXCEPT !.log = Append(@, "NewJWKSetJSON")]
       IN  /\ cache' = cacheSet(j.cacheKind, cache, fn.keys)
           /\ IF fn.err
              THEN Set(c, failKeyfunc(f, "creating new key func: ", fn.msg))
              ELSE Set(c, [f EXCEPT !.pc = "parseJWT", !.kf = fn.keys,
                                    !.setKey = cacheKeyKeyfunc,
                                    !.log = Append(@, "cache.Set")])
    /\ UNCHANGED <<rule, value, now, result, rpc, j, history>>
NewKeyfunc(c) ==
    /\ call[c].pc = "NewJWKSetJSON"
    /\ LET fn == NewJWKSetJSON(call[c].data)
           f == [call[c] EXCEPT !.log = Append(@, "NewJWKSetJSON")]
       IN  IF fn.err
           THEN /\ Set(c, failKeyfunc(f, "creating new key func: ", fn.msg))
                /\ cache' = cache
           ELSE /\ Set(c, [f EXCEPT !.pc = "parseJWT", !.kf = fn.keys,
                                    !.setKey = cacheKeyKeyfunc,
                                    !.log = Append(@, "cache.Set")])
                /\ cache' = cacheSet(j.cacheKind, cache, fn.keys)
    /\ UNCHANGED <<rule, value, now, result, rpc, j, history>>

\* parseJWT: jwt.Parse(tokenString, kf, options...).
Parse(c) ==
    /\ call[c].pc = "parseJWT"
    /\ LET p == jwtParse(call[c].token, call[c].kf, parseOptions(j), now)
           f == [call[c] EXCEPT !.log = Append(@, IF p.err THEN "jwt.Parse:err"
                                                            ELSE "jwt.Parse:ok")]
       IN  Set(c, parseStep(f, p))
    /\ UNCHANGED <<rule, value, now, result, rpc, j, cache, history>>

\* One iteration of "for _, rule := range rules".
RuleStepMutSharedErrors(c) ==
    /\ call[c].pc = "rules"
    /\ call[c].i <= Len(call[c].rules)
    /\ LET running == {d \in DOMAIN call \ {c} : call[d].pc = "rules"}
           shared == IF running = {} THEN call[c].verificationErrors
                     ELSE call[CHOOSE d \in running : TRUE].verificationErrors
       IN  Set(c, loopBody([call[c] EXCEPT !.verificationErrors = shared], now))
    /\ UNCHANGED <<rule, value, now, result, rpc, j, cache, history>>
RuleStep(c) ==
    /\ call[c].pc = "rules"
    /\ call[c].i <= Len(call[c].rules)
    /\ Set(c, loopBody(call[c], now))
    /\ UNCHANGED <<rule, value, now, result, rpc, j, cache, history>>

\* The loop is over: ParseAndVerify returns.
Return(c) ==
    /\ call[c].pc = "rules"
    /\ call[c].i > Len(call[c].rules)
    /\ Set(c, [call[c] EXCEPT !.pc = "done", !.ret = returnOf(call[c])])
    /\ UNCHANGED <<rule, value, now, result, rpc, j, cache, history>>

\* The caller has taken the result: the frame is gone.
Finish(c) ==
    /\ call[c].pc = "done"
    /\ Set(c, NoCall)
    /\ UNCHANGED <<rule, value, now, result, rpc, j, cache, history>>

\* The entry of a DefaultCache expires (go-cache's default expiration).
Expire ==
    /\ cache.found
    /\ cache' = NoEntry
    /\ UNCHANGED <<rule, value, now, result, rpc, j, call, history>>

\* In Spec the calls follow one another: a call starts when no other runs.
CallAlone(c) ==
    /\ \A d \in Calls \ {c} : call[d].pc = "idle"
    /\ Call(c)

Init ==
    /\ rule = NilRule("")
    /\ value = Null
    /\ result = Nil
    /\ rpc = "none"
    /\ now = MaxNow
    /\ j \in Verifiers
    /\ cache = NoEntry
    /\ call = [c \in Calls |-> NoCall]
    /\ history = <<>>

Next ==
    \/ \E c \in Calls : CallAlone(c)
    \/ \E c \in Calls : CacheGet(c)
    \/ \E c \in Calls : FetchJWKSURI(c)
    \/ \E c \in Calls : FetchJWKS(c)
    \/ \E c \in Calls : NewKeyfunc(c)
    \/ \E c \in Calls : Parse(c)
    \/ \E c \in Calls : RuleStep(c)
    \/ \E c \in Calls : Return(c)
    \/ \E c \in Calls : Finish(c)
    \/ Expire

Spec == Init /\ [][Next]_vars

\* --------------------------------------- calls that run at the same time
\* Goroutines that call ParseAndVerify on one Verifier with one rule list.
NumConc == 2
ConcCalls == 1..NumConc

\* The rule list the calls share, and the tokens they verify.
ConcVerifier == New("a", FALSE, "default")
SharedRules == <<WithAudienceRule("foo"), VerifierWithExpirationRule(ConcVerifier, 0)>>
ConcTokens ==
    {[malformed |-> FALSE, kid |-> "k1",
      payload |-> Merge([x \in {"aud"} |-> Str("foo")],
                        [x \in {"exp"} |-> Number(Future)])],
     [malformed |-> FALSE, kid |-> "k1",
      payload |-> Merge([x \in {"aud"} |-> Str("Tashuan")],
                        [x \in {"exp"} |-> Number(Past)])]}

\* ParseAndVerify(ctx, token, SharedRules...) is called, whatever the
\* other goroutines are doing.
CallShared(c) ==
    /\ call[c].pc = "idle"
    /\ \E token \in ConcTokens : Set(c, Frame("getKeyfunc", token, SharedRules))
    /\ UNCHANGED <<rule, value, now, result, rpc, j, cache, history>>

InitConc ==
    /\ rule = NilRule("")
    /\ value = Null
    /\ result = Nil
    /\ rpc = "none"
    /\ now = MaxNow
    /\ j = ConcVerifier
    /\ cache = NoEntry
    /\ call = [c \in ConcCalls |-> NoCall]
    /\ history = <<>>

NextConc ==
    \/ \E c \in ConcCalls : CallShared(c)
    \/ \E c \in ConcCalls : CacheGet(c)
    \/ \E c \in ConcCalls : FetchJWKSURI(c)
    \/ \E c \in ConcCalls : FetchJWKS(c)
    \/ \E c \in ConcCalls : NewKeyfunc(c)
    \/ \E c \in ConcCalls : Parse(c)
    \/ \E c \in ConcCalls : RuleStep(c)
    \/ \E c \in ConcCalls : Return(c)
    \/ \E c \in ConcCalls : Finish(c)
    \/ Expire

SpecConc == InitConc /\ [][NextConc]_vars

\* ------------------------------------------------- properties of the rules
Range(f) == {f[i] : i \in DOMAIN f}
Returned(kind) == rpc = "returned" /\ rule.kind = kind

TypeMismatchMsg(T, v) == <<"expected a ", T, " but got a ", v.type>>
ValueMismatchMsg(want, got) == <<"expected '", Fmt(want), "' but got '", Fmt(got), "'">>

\* C6: an exact-match rule for V of type T returns nil for the value V,
\* the value-mismatch message with both values for any other value of type
\* T, and the type-mismatch message with both type names for a value of any
\* other type (null included), whatever that value is.
C6_ExactMatch ==
    Returned("exact") =>
        LET T == rule.T
            V == rule.want[1]
        IN  /\ (value.type = T /\ value = V) => result = Nil
            /\ (value.type = T /\ value # V) =>
                   /\ result = Errorf(ValueMismatchMsg(V, value))
                   /\ {Fmt(V), Fmt(value)} \subseteq Range(result.msg)
            /\ value.type # T =>
                   /\ result = Errorf(TypeMismatchMsg(T, value))
                   /\ {T, value.type} \subseteq Range(result.msg)

C6_Witness ==
    /\ Returned("exact")
    /\ value = Null
    /\ result = Errorf(<<"expected a ", "string", " but got a ", "<nil>">>)

\* A claim value that is a sequence whose elements are all of type T.
IsArrayOf(v, T) == v.type = TArray /\ \A i \in 1..Len(v.elems) : v.elems[i].type = T

\* C7: on a sequence of T values a contains-all rule returns nil exactly
\* when every wanted value occurs in the sequence, and the outcome is the
\* same for every reordering or duplication of the sequence and of the
\* wanted list.
C7_ContainsAll ==
    (Returned("contains") /\ IsArrayOf(value, rule.T)) =>
        /\ (result = Nil) <=> (Range(rule.want) \subseteq Range(value.elems))
        /\ \A w2 \in SeqUpTo(Range(rule.want), MaxWant + 1),
              e2 \in SeqUpTo(Range(value.elems), MaxArr + 1) :
              (Range(w2) = Range(rule.want) /\ Range(e2) = Range(value.elems)) =>
                  ContainsRule(rule.T, w2, Arr(e2)).err = result.err

C7_Witness ==
    /\ Returned("contains")
    /\ rule.want = <<Str("a"), Str("b")>>
    /\ value = Arr(<<Str("b"), Str("a")>>)
    /\ result = Nil

\* The values a "missing value(s): 'x', 'y'" message lists, in order.
ListedValues(msg) == [k \in 1..((Len(msg) - 1) \div 3) |-> msg[3 * k]]
IsMissingMsg(r) == r.err /\ Len(r.msg) > 0 /\ r.msg[1] = "missing value(s): "

\* Index of the first occurrence of x in the sequence s.
FirstIndex(s, x) == CHOOSE i \in 1..Len(s) : s[i] = x /\ \A k \in 1..(i - 1) : s[k] # x

\* C8: a "missing value(s)" message lists every missing value exactly once,
\* in the order of the wanted list.
C8_MissingListedOnce ==
    (Returned("contains") /\ IsMissingMsg(result)) =>
        LET listed == ListedValues(result.msg)
            missing == {Fmt(w) : w \in {x \in Range(rule.want) : x \notin Range(value.elems)}}
        IN  /\ Range(listed) = missing
            /\ \A a, b \in 1..Len(listed) : a # b => listed[a] # listed[b]
            /\ \A a, b \in 1..Len(listed) :
                  a < b => FirstIndex([i \in 1..Len(rule.want) |-> Fmt(rule.want[i])], listed[a])
                           < FirstIndex([i \in 1..Len(rule.want) |-> Fmt(rule.want[i])], listed[b])

\* C9 as stated: a contains-all rule with an empty wanted list returns nil
\* for every claim value.
C9_EmptyWantedAnyValue ==
    (Returned("contains") /\ rule.want = <<>>) => result = Nil

\* C9 amended: a contains-all rule with an empty wanted list returns nil
\* for every claim value that is a sequence of T values, and a type-mismatch
\* error for every other claim value.
C9_EmptyWantedArrayOfT ==
    (Returned("contains") /\ rule.want = <<>>) =>
        (result = Nil <=> IsArrayOf(value, rule.T))

C9_Witness ==
    /\ Returned("contains")
    /\ rule.want = <<>>
    /\ value = Arr(<<Str("a"), Str("b")>>)
    /\ result = Nil

\* A claim value parseTimestamp accepts in the given decoding mode: a number
\* of the mode's type (for json.Number, an integer literal).
WellTypedTimestamp(v, useJSONNumber) ==
    IF useJSONNumber THEN v.type = TJSONNumber /\ v.n % TicksPerSecond = 0
    ELSE v.type = TFloat64

\* The instant (in ticks) of a numeric claim value: its whole seconds.
InstantOf(v) == (v.n - (IF v.n >= 0 THEN v.n % TicksPerSecond ELSE -((-v.n) % TicksPerSecond)))

\* C10: an expiration rule with leeway L returns "token is expired" exactly
\* when now - ts > L seconds, and nil otherwise: the comparison is strict,
\* leeway 0 tolerates nothing, and a ts in the future passes.
C10_ExpirationStrict ==
    (Returned("timestamp") /\ rule.Key = "exp"
        /\ WellTypedTimestamp(value, rule.useJSONNumber)) =>
        LET ts == InstantOf(value)
            expired == now - ts > rule.leeway * TicksPerSecond
        IN  /\ expired <=> result = Errorf(<<"token is expired">>)
            /\ ~expired <=> result = Nil
            /\ (rule.leeway = 0 /\ now > ts) => result.err
            /\ ts > now => result = Nil

\* The boundary: the token is exactly leeway seconds old and passes.
C10_Witness ==
    /\ Returned("timestamp")
    /\ rule.Key = "exp"
    /\ rule.leeway = 1
    /\ value = Float(2)
    /\ now = 2 + TicksPerSecond
    /\ result = Nil

\* The three claim values of the boundary example, scaled to a leeway of L
\* seconds: leeway 60 with T-60, T-30 and T-90 is L with T-L, T-L/2, T-3L/2.
AtBoundary(v, t, L) == v.n = t - L * TicksPerSecond
Inside(v, t, L) == v.n = t - (L * TicksPerSecond) \div 2
Outside(v, t, L) == v.n = t - (3 * L * TicksPerSecond) \div 2
BoundaryCase ==
    /\ Returned("timestamp")
    /\ rule.Key = "exp"
    /\ rule.leeway > 0 /\ rule.leeway % 2 = 0
    /\ WellTypedTimestamp(value, rule.useJSONNumber)

\* C11 as stated: at every current time T, with or without a sub-second
\* part, the expiration rule passes the values T-L and T-L/2 and fails the
\* value T-3L/2 with "token is expired".
C11_BoundaryAnyInstant ==
    BoundaryCase =>
        /\ AtBoundary(value, now, rule.leeway) => result = Nil
        /\ Inside(value, now, rule.leeway) => result = Nil
        /\ Outside(value, now, rule.leeway) => result = Errorf(<<ErrExpired>>)

\* C11 amended: the same at every current time T that is a whole number of
\* seconds.
C11_BoundaryWholeSeconds ==
    (BoundaryCase /\ now % TicksPerSecond = 0) =>
        /\ AtBoundary(value, now, rule.leeway) => result = Nil
        /\ Inside(value, now, rule.leeway) => result = Nil
        /\ Outside(value, now, rule.leeway) => result = Errorf(<<ErrExpired>>)

\* The boundary itself: exactly leeway seconds old at a whole-second T.
C11_Witness ==
    /\ BoundaryCase
    /\ now % TicksPerSecond = 0
    /\ AtBoundary(value, now, rule.leeway)
    /\ value.n > 0
    /\ result = Nil

\* The rule under test was built by the Verifier's WithIssuedAtRule.
BuiltByVerifierIssuedAt ==
    /\ Returned("timestamp")
    /\ rule \in {VerifierWithIssuedAtRule(j, l) : l \in 0..MaxLeeway}

C13_PackageIssuedAt ==
    (/\ Returned("timestamp")
     /\ rule \in {WithIssuedAtRule(l) : l \in 0..MaxLeeway}
                  \cup {WithIssuedAtRuleJSONNumber(l) : l \in 0..MaxLeeway}
     /\ WellTypedTimestamp(value, rule.useJSONNumber)) =>
        LET ts == InstantOf(value)
            failed == result = Errorf(<<"token was issued in the future">>)
        IN  /\ failed <=> ts - now > rule.leeway * TicksPerSecond
            /\ ts <= now => ~failed

\* C14: the outcome of a rule built by Verifier.WithExpirationRule or
\* Verifier.WithIssuedAtRule is a function of the claim value, the leeway
\* and the value the Verifier's now provider returns: two invocations of
\* the rule on the same value at which the provider returns the same
\* instant have the same outcome, whatever the wall clock reads.
C14_FunctionOfInjectedNow ==
    \A a, b \in 1..Len(history) :
        history[a].jnow = history[b].jnow => history[a].result = history[b].result

\* The numeric representation of a decoding mode.
ModeType(useJSONNumber) == IF useJSONNumber THEN TJSONNumber ELSE TFloat64

\* C15: a timestamp rule built by the Verifier j decodes in fixed-precision
\* mode exactly when j was configured with WithUseJSONNumber, so it accepts
\* every whole number as the parser of j decodes it; a value that is not of
\* the mode's numeric type fails with the type-mismatch message, whatever
\* the clock reads, and a value of the mode's type never does.
C15_DecodingMode ==
    (Returned("timestamp") /\ rule \in VerifierTimestampRules(j)) =>
        LET want == ModeType(j.useJSONNumber)
            mismatch == Errorf(<<"expected a ", want, " but got a ", value.type>>)
        IN  /\ rule.useJSONNumber = j.useJSONNumber
            /\ \A n \in 0..MaxNow :
                   LET v == decodeValue(Number(n * TicksPerSecond),
                                        "WithJSONNumber" \in parseOptions(j))
                   IN  ~parseTimestamp(v, rule.useJSONNumber).err
            /\ value.type # want =>
                   /\ result = mismatch
                   /\ \A t \in 0..MaxNow : RuleCall(rule, value, t) = mismatch
            /\ value.type = want => result # mismatch

\* A float64 handed to a rule of a Verifier in fixed-precision mode.
C15_Witness ==
    /\ Returned("timestamp")
    /\ j.useJSONNumber
    /\ rule = VerifierWithExpirationRule(j, 0)
    /\ value = Float(2)
    /\ result = Errorf(<<"expected a ", "json.Number", " but got a ", "float64">>)

\* C16: every type-mismatch failure of a built-in rule (exact match,
\* contains-all on a value that is not a sequence, contains-all on an
\* element that is not a T, timestamp decoding) has a message that names
\* both the expected type and the type of the offending value.
C16_TypeMismatchNamesBoth ==
    rpc = "returned" =>
        /\ (rule.kind = "exact" /\ value.type # rule.T) =>
               result.err /\ {rule.T, value.type} \subseteq Range(result.msg)
        /\ (rule.kind = "contains" /\ value.type # TArray) =>
               result = Errorf(<<"expected an array but got a ", value.type>>)
        /\ (rule.kind = "contains" /\ value.type = TArray
                /\ firstNotT(value.elems, rule.T, 1) # 0) =>
               LET k == firstNotT(value.elems, rule.T, 1)
               IN  result.err /\ {rule.T, value.elems[k].type} \subseteq Range(result.msg)
        /\ (rule.kind = "timestamp" /\ value.type # ModeType(rule.useJSONNumber)) =>
               result.err
               /\ {ModeType(rule.useJSONNumber), value.type} \subseteq Range(result.msg)

\* What each constructor of the package can return, by the claim it is for.
ExpirationRulesOf(v) ==
    {WithExpirationRule(l) : l \in 0..MaxLeeway}
    \cup {WithExpirationRuleJSONNumber(l) : l \in 0..MaxLeeway}
    \cup {VerifierWithExpirationRule(v, l) : l \in 0..MaxLeeway}
IssuedAtRulesOf(v) ==
    {WithIssuedAtRule(l) : l \in 0..MaxLeeway}
    \cup {WithIssuedAtRuleJSONNumber(l) : l \in 0..MaxLeeway}
    \cup {VerifierWithIssuedAtRule(v, l) : l \in 0..MaxLeeway}

InLog(f, e) == \E k \in 1..Len(f.log) : f.log[k] = e
ParsedOK(f) == InLog(f, "jwt.Parse:ok")
\* The call has returned after running the loop over its rules.
Verified(f) == f.pc = "done" /\ ParsedOK(f)

\* The failure message rule r earns on the claim mapping (<<>> when it passes).
FailureOf(r, claims, t) ==
    IF r.Key \notin DOMAIN claims THEN <<"claim '", r.Key, "' not found">>
    ELSE IF r.kind = "nil" THEN <<>>
    ELSE LET e == RuleCall(r, claims[r.Key], t)
         IN  IF e.err THEN <<"claim '", r.Key, "' is invalid: ">> \o e.msg ELSE <<>>
Failing(f) == {k \in 1..Len(f.rules) : FailureOf(f.rules[k], f.claims, now) # <<>>}

\* The messages of the failing rules from index k on, separated by "; ".
RECURSIVE TextFrom(_, _)
TextFrom(f, k) ==
    IF k > Len(f.rules) THEN <<>>
    ELSE LET m == FailureOf(f.rules[k], f.claims, now)
             rest == TextFrom(f, k + 1)
         IN  IF m = <<>> THEN rest
             ELSE IF rest = <<>> THEN m
             ELSE m \o <<"; ">> \o rest

\* C1: when at least one rule fails, the error text is the failing rules'
\* messages ("claim 'k' is invalid: reason" or "claim 'k' not found") in the
\* order of the rule list, separated by "; ".
C1_ErrorTextInRuleOrder ==
    \A c \in Calls :
        (Verified(call[c]) /\ Failing(call[c]) # {}) =>
            call[c].ret.err = Errorf(TextFrom(call[c], 1))

C1_Witness ==
    \E c \in Calls :
        /\ Verified(call[c])
        /\ call[c].rules = <<WithAudienceRule("foo"),
                             WithCustomClaimExactMatchRule("sub", TString, Str("Weidong"))>>
        /\ call[c].ret.err.msg =
               <<"claim '", "aud", "' is invalid: ", "expected '", "foo", "' but got '", "Tashuan", "'",
                 "; ",
                 "claim '", "sub", "' not found">>

\* C2: every rule of the list is evaluated, whatever failed before it, and
\* the recorded failures are one per failing rule (rules sharing a key
\* included) and none for a passing rule.
C2_NoFailFast ==
    \A c \in Calls :
        Verified(call[c]) =>
            /\ call[c].evaluated = [k \in 1..Len(call[c].rules) |-> k]
            /\ Len(call[c].verificationErrors) = Cardinality(Failing(call[c]))
            /\ Range(call[c].verificationErrors)
                   = {FailureOf(call[c].rules[k], call[c].claims, now) : k \in Failing(call[c])}

C2_Witness ==
    \E c \in Calls :
        /\ Verified(call[c])
        /\ call[c].rules = <<WithAudienceRule("foo"),
                             WithCustomClaimContainsRule("aud", TString, <<Str("foo")>>)>>
        /\ "aud" \in DOMAIN call[c].claims
        /\ Len(call[c].verificationErrors) = 2

\* C3: a predicate only ever receives the value the mapping holds under its
\* rule's key, and a single rule whose key is absent yields exactly the
\* failure "claim 'key' not found" without its predicate being invoked.
C3_AbsentKey ==
    \A c \in Calls :
        LET f == call[c]
        IN  /\ \A k \in 1..Len(f.invoked) :
                  /\ f.rules[f.invoked[k].i].Key \in DOMAIN f.claims
                  /\ f.invoked[k].v = f.claims[f.rules[f.invoked[k].i].Key]
            /\ (Verified(f) /\ Len(f.rules) = 1 /\ f.rules[1].Key \notin DOMAIN f.claims) =>
                  /\ f.invoked = <<>>
                  /\ f.verificationErrors = <<<<"claim '", f.rules[1].Key, "' not found">>>>
                  /\ f.ret = [jwt |-> EmptyJWT,
                              err |-> Errorf(<<"claim '", f.rules[1].Key, "' not found">>)]

C3_Witness ==
    \E c \in Calls :
        /\ Verified(call[c])
        /\ call[c].rules = <<WithAudienceRule("foo")>>
        /\ "aud" \notin DOMAIN call[c].claims
        /\ call[c].ret.err = Errorf(<<"claim '", "aud", "' not found">>)

\* The errors key resolution and parsing can return for a token: none of
\* them is built from the rule list.
EarlyErrors(token, v, t) ==
    {Errorf(<<"getting jwks uri: ">> \o getJWKSURI(r).msg) : r \in Responses(DiscoveryBodies)}
    \cup {Errorf(<<"getting jwks: ">> \o getJWKS(u, r).msg) :
              u \in {"", GoodURI}, r \in Responses(JWKSBodies)}
    \cup {Errorf(<<"creating new key func: ">> \o NewJWKSetJSON(d).msg) : d \in JWKSBodies}
    \cup {Errorf(<<"parsing jwt: ">> \o jwtParse(token, kf, parseOptions(v), t).msg) :
              kf \in {{"k1"}, {"k2"}}}

\* C4: no rule is looked at before key resolution and parsing have both
\* succeeded; a call in which either fails returns that failure at once,
\* with an empty JWT, and the failure is one of the errors of those stages,
\* which do not depend on the rules.
C4_RulesOnlyAfterParse ==
    \A c \in Calls :
        LET f == call[c]
        IN  /\ (f.evaluated # <<>> \/ f.invoked # <<>> \/ f.verificationErrors # <<>>
                   \/ f.pc = "rules") =>
                  /\ ParsedOK(f)
                  /\ InLog(f, "cache.Get:hit") \/ InLog(f, "cache.Set")
            /\ (f.pc = "done" /\ ~ParsedOK(f)) =>
                  /\ f.evaluated = <<>> /\ f.invoked = <<>> /\ f.verificationErrors = <<>>
                  /\ f.ret.jwt = EmptyJWT
                  /\ f.ret.err.err
                  /\ f.ret.err \in EarlyErrors(f.token, j, now)

C4_Witness ==
    \E c \in Calls :
        /\ call[c].pc = "done"
        /\ call[c].token.malformed
        /\ Len(call[c].rules) = 2
        /\ call[c].ret.err = Errorf(<<"parsing jwt: ", "token is malformed">>)
        /\ call[c].evaluated = <<>>

\* C5: a call that parsed its token returns the full decoded claim mapping
\* and no error exactly when no rule failure was recorded, and the empty
\* JWT with the aggregated error otherwise; with no rules, every well-formed
\* token signed with a key of the resolver succeeds, whatever its claims.
C5_OnlyRulesValidate ==
    \A c \in Calls :
        LET f == call[c]
            decoded == decodeClaims(f.token.payload, j.useJSONNumber)
        IN  /\ Verified(f) =>
                  /\ (f.ret.jwt = JWT(decoded)) <=> (f.verificationErrors = <<>>)
                  /\ (f.ret.err = Nil) <=> (f.verificationErrors = <<>>)
                  /\ f.verificationErrors # <<>> =>
                         /\ f.ret.jwt = EmptyJWT
                         /\ f.ret.err = Errorf(Join(f.verificationErrors, "; "))
            /\ (f.pc = "done" /\ f.rules = <<>> /\ ~f.token.malformed
                    /\ f.token.kid \in f.kf
                    /\ (InLog(f, "jwt.Parse:ok") \/ InLog(f, "jwt.Parse:err"))) =>
                  f.ret = [jwt |-> JWT(decoded), err |-> Nil]

C5_Witness ==
    \E c \in Calls :
        /\ call[c].pc = "done"
        /\ call[c].rules = <<>>
        /\ "exp" \in DOMAIN call[c].token.payload
        /\ call[c].token.payload["exp"] = Number(Past)
        /\ now > Past
        /\ call[c].ret.err = Nil
        /\ DOMAIN call[c].ret.jwt.Claims = {"aud", "sub", "exp"}

\* The iteration of the loop that call c is about to run is for a rule
\* without a predicate.
AtNilRule(c) ==
    /\ call[c].pc = "rules"
    /\ call[c].i <= Len(call[c].rules)
    /\ call[c].rules[call[c].i].kind = "nil"

\* C17: the iteration for a rule with a nil Rule records nothing and
\* invokes nothing when the rule's key is in the claim mapping, and records
\* "claim 'key' not found" when it is not; a call all of whose rules are
\* nil rules with keys in the mapping succeeds.
C17_NilRule ==
    /\ [][\A c \in Calls :
             (AtNilRule(c) /\ call'[c] # call[c]) =>
                 LET f == call[c]
                     r == f.rules[f.i]
                 IN  /\ call'[c].invoked = f.invoked
                     /\ call'[c].i = f.i + 1
                     /\ call'[c].verificationErrors =
                            IF r.Key \in DOMAIN f.claims
                            THEN f.verificationErrors
                            ELSE Append(f.verificationErrors,
                                        <<"claim '", r.Key, "' not found">>)]_vars
    /\ [](\A c \in Calls :
             (/\ Verified(call[c])
              /\ \A k \in 1..Len(call[c].rules) :
                    /\ call[c].rules[k].kind = "nil"
                    /\ call[c].rules[k].Key \in DOMAIN call[c].claims) =>
                 call[c].ret = [jwt |-> JWT(call[c].claims), err |-> Nil])

\* A nil rule whose key is present after a nil rule whose key is absent.
C17_Witness ==
    \E c \in Calls :
        /\ Verified(call[c])
        /\ call[c].rules = <<NilRule("cid"), NilRule("aud")>>
        /\ "aud" \in DOMAIN call[c].claims
        /\ call[c].verificationErrors = <<<<"claim '", "cid", "' not found">>>>
        /\ call[c].ret.err = Errorf(<<"claim '", "cid", "' not found">>)

\* C19: no rule handed to ParseAndVerify has an empty key.
C19_KeyNeverEmpty ==
    \A c \in Calls :
        \A k \in 1..Len(call[c].rules) : call[c].rules[k].Key # ""

\* C20: from the moment the token is parsed until the call has returned,
\* successfully or not, no step changes the claim mapping or any sequence
\* in it, which stays what the parser decoded; and no step of a call
\* changes its rule list.
C20_ReadOnly ==
    /\ [][\A c \in Calls :
             /\ call[c].pc = "rules" => call'[c].claims = call[c].claims
             /\ call[c].pc \notin {"idle", "done"} => call'[c].rules = call[c].rules]_vars
    /\ [](\A c \in Calls :
             (call[c].pc \in {"rules", "done"} /\ ParsedOK(call[c])) =>
                 call[c].claims = decodeClaims(call[c].token.payload, j.useJSONNumber))

\* A failed call whose rules read a sequence claim and a missing claim.
C20_Witness ==
    \E c \in Calls :
        /\ Verified(call[c])
        /\ call[c].rules = <<WithCustomClaimContainsRule("aud", TString, <<Str("foo")>>),
                             WithAudienceRule("foo")>>
        /\ "aud" \in DOMAIN call[c].claims
        /\ call[c].claims["aud"] = Arr(<<Str("bar"), Str("foo")>>)
        /\ call[c].invoked = <<[i |-> 1, v |-> Arr(<<Str("bar"), Str("foo")>>)],
                               [i |-> 2, v |-> Arr(<<Str("bar"), Str("foo")>>)]>>
        /\ call[c].ret.err.err

OtherMode(r) == [r EXCEPT !.useJSONNumber = ~@]
Redecoded(v, useJSONNumber) == [v EXCEPT !.type = ModeType(useJSONNumber)]

\* C26: a timestamp rule applied to a JSON number, whole or fractional,
\* passes in json.Number mode exactly when the same rule passes in float64
\* mode on the same number at the same instant.
C26_ModesAgree ==
    (Returned("timestamp") /\ value.type = ModeType(rule.useJSONNumber)) =>
        result.err = RuleCall(OtherMode(rule),
                              Redecoded(value, ~rule.useJSONNumber), now).err

\* C27: if a timestamp rule built with leeway L passes, the rule built
\* with any leeway L' >= L passes on the same value at the same instant.
C27_MonotoneInLeeway ==
    (Returned("timestamp") /\ result = Nil) =>
        \A l \in Leeways :
            l >= rule.leeway => RuleCall([rule EXCEPT !.leeway = l], value, now) = Nil

\* ------------------------------------------ properties of key resolution
\* Call c has returned because the fetch logged last was answered with a
\* status other than 200.
FailedOnStatus(f, fetch) ==
    /\ f.pc = "done"
    /\ Len(f.log) > 0 /\ f.log[Len(f.log)] = fetch
    /\ ~f.resp.transportErr
    /\ f.resp.status # StatusOK

PrefixOf(fetch) == IF fetch = "GET discovery" THEN "getting jwks uri: " ELSE "getting jwks: "

\* The error text that names 200, the status received and the body.
StatusWithBody(fetch, resp) ==
    <<PrefixOf(fetch), "expected status code ", "200", " but got status code ",
      ToString(resp.status), " with data: ", resp.body>>

\* C22 as stated: a fetch answered with a status other than 200 fails the
\* call with the prefixed error that names 200, the status received and
\* the response body; after a failed discovery fetch the JWKS endpoint is
\* not requested.
C22_StatusErrorWithBody ==
    \A c \in ConcCalls : \A fetch \in {"GET discovery", "GET jwks"} :
        FailedOnStatus(call[c], fetch) =>
            /\ call[c].ret = [jwt |-> EmptyJWT,
                              err |-> Errorf(StatusWithBody(fetch, call[c].resp))]
            /\ fetch = "GET discovery" => ~InLog(call[c], "GET jwks")

\* C22 amended: the error carries the body when the body could be read,
\* and ends after the status received when it could not.
C22_StatusErrorReadableBody ==
    \A c \in ConcCalls : \A fetch \in {"GET discovery", "GET jwks"} :
        FailedOnStatus(call[c], fetch) =>
            /\ call[c].ret =
                   [jwt |-> EmptyJWT,
                    err |-> Errorf(IF call[c].resp.readable
                                   THEN StatusWithBody(fetch, call[c].resp)
                                   ELSE SubSeq(StatusWithBody(fetch, call[c].resp), 1, 5))]
            /\ fetch = "GET discovery" => ~InLog(call[c], "GET jwks")

\* The JWKS endpoint has answered 500 with a body.
C22_Witness ==
    \E c \in ConcCalls :
        /\ FailedOnStatus(call[c], "GET jwks")
        /\ call[c].ret.err.msg =
               <<"getting jwks: ", "expected status code ", "200", " but got status code ",
                 "500", " with data: ", "internal server error">>

\* What a call that was served from the cache has not done.
FetchEvents == {"GET discovery", "GET jwks", "NewJWKSetJSON", "cache.Set"}

\* C23: when the cache holds a resolver, getKeyfunc returns it (the call
\* goes on to parse the token with it) and leaves the cache as it is; a
\* call served from the cache makes no discovery fetch, no JWKS fetch and
\* no Set.
C23_CacheHit ==
    /\ [][\A c \in Calls :
            (/\ call[c].pc = "getKeyfunc"
             /\ cacheGet(j.cacheKind, cache).found
             /\ call'[c] # call[c])
            => /\ call'[c].pc = "parseJWT"
               /\ call'[c].kf = cacheGet(j.cacheKind, cache).keys
               /\ call'[c].log = <<"cache.Get:hit">>
               /\ cache' = cache]_vars
    /\ [](\A c \in Calls :
            InLog(call[c], "cache.Get:hit") =>
                \A e \in FetchEvents : ~InLog(call[c], e))

\* A call served from the cache has verified its token.
C23_Witness ==
    \E c \in Calls :
        /\ Verified(call[c])
        /\ InLog(call[c], "cache.Get:hit")
        /\ call[c].kf = {"k1"}
        /\ cache = [found |-> TRUE, keys |-> {"k1"}]

\* Call f did e at most once.
AtMostOnce(f, e) ==
    \A k \in 1..Len(f.log) :
        f.log[k] = e => \A m \in (k + 1)..Len(f.log) : f.log[m] # e

\* What a call that fills the cache does, in order.
FillSequence ==
    <<"cache.Get:miss", "GET discovery", "GET jwks", "NewJWKSetJSON", "cache.Set">>

\* Call f returned because no key resolver could be had.
KeyfuncFailed(f) ==
    /\ f.pc = "done"
    /\ ~InLog(f, "jwt.Parse:ok") /\ ~InLog(f, "jwt.Parse:err")

\* Call f has a key resolver that did not come from the cache.
Resolved(f) ==
    /\ f.pc \in {"parseJWT", "rules"} \/ (f.pc = "done" /\ ~KeyfuncFailed(f))
    /\ InLog(f, "cache.Get:miss")

\* C24: a call that misses calls Set exactly once, under "key_func", once
\* the discovery fetch, the JWKS fetch and the key-set construction have
\* succeeded in that order; a call that fails on the way calls no Set and
\* leaves the cache as it was; a call that misses starts with the
\* discovery fetch whatever happened before; after a fill a DefaultCache
\* holds the resolver and the next call is served from it.
C24_CacheFill ==
    /\ [](\A c \in Calls :
            LET f == call[c] IN
            /\ AtMostOnce(f, "cache.Set")
            /\ Resolved(f) => InLog(f, "cache.Set")
            /\ InLog(f, "cache.Set") =>
                   /\ SubSeq(f.log, 1, 5) = FillSequence
                   /\ f.setKey = "key_func"
                   /\ f.jwksURI = GoodURI
                   /\ f.resp.status = StatusOK /\ f.data = f.resp.body
                   /\ ~NewJWKSetJSON(f.data).err
                   /\ f.kf = NewJWKSetJSON(f.data).keys
            /\ KeyfuncFailed(f) => ~InLog(f, "cache.Set") /\ f.setKey = "")
    /\ [][\A c \in Calls :
            LET f == call[c]
                g == call'[c]
            IN  /\ (f.pc # "done" /\ KeyfuncFailed(g)) => cache' = cache
                /\ (f.pc = "getKeyfunc" /\ ~cacheGet(j.cacheKind, cache).found /\ g # f)
                       => g.pc = "getJWKSURI" /\ g.log = <<"cache.Get:miss">>
                /\ (f.pc = "NewJWKSetJSON" /\ InLog(g, "cache.Set"))
                       => /\ j.cacheKind = "default"
                             => cache' = [found |-> TRUE, keys |-> g.kf]
                          /\ j.cacheKind = "nop" => cache' = cache
                /\ (f.pc = "getKeyfunc" /\ j.cacheKind = "default" /\ cache.found /\ g # f)
                       => g.kf = cache.keys /\ g.log = <<"cache.Get:hit">>]_vars
    /\ [][cache' # cache =>
            \/ cache' = NoEntry /\ call' = call
            \/ \E c \in Calls : ~InLog(call[c], "cache.Set") /\ InLog(call'[c], "cache.Set")]_vars

\* A call has filled a DefaultCache and verified its token.
C24_Witness ==
    \E c \in Calls :
        /\ Verified(call[c])
        /\ SubSeq(call[c].log, 1, 5) = FillSequence
        /\ j.cacheKind = "default"
        /\ cache = [found |-> TRUE, keys |-> call[c].kf]

\* ------------------------------------------ properties of concurrent calls
\* The loop over the rules run from its start to its end with nothing else
\* running: the frame when the loop is over.
RECURSIVE runLoop(_, _)
runLoop(f, t) == IF f.i > Len(f.rules) THEN f ELSE runLoop(loopBody(f, t), t)

\* What a call with the arguments and the parsed claims of f returns when
\* it runs alone.
AloneOutcome(f, t) ==
    returnOf(runLoop([f EXCEPT !.i = 1, !.evaluated = <<>>, !.invoked = <<>>,
                               !.verificationErrors = <<>>], t))

\* C21: under every interleaving of the calls that share the rule list,
\* each call that has verified its claims returns what it would return
\* when run alone on the same claims, its recorded failures are its own,
\* and the shared rule list is what it was.
C21_SharedRulesIsolated ==
    \A c \in ConcCalls :
        /\ call[c].pc # "idle" => call[c].rules = SharedRules
        /\ Verified(call[c]) =>
               /\ call[c].ret = AloneOutcome(call[c], now)
               /\ call[c].verificationErrors
                      = runLoop([call[c] EXCEPT !.i = 1, !.verificationErrors = <<>>],
                                now).verificationErrors

\* Two calls in the loop at once, one on its way to fail: the other has
\* returned success.
C21_Witness ==
    \E c, d \in ConcCalls :
        /\ c # d
        /\ Verified(call[c])
        /\ call[c].ret.err = Nil
        /\ call[d].pc = "rules"
        /\ call[d].i = 2
        /\ Len(call[d].verificationErrors) = 1

\* The resolvers that keyfunc.NewJWKSetJSON builds from a JWKS endpoint's
\* complete 200 response.
GoodResolvers ==
    {NewJWKSetJSON(b).keys : b \in {d \in JWKSBodies : ~NewJWKSetJSON(d).err}}

\* Call f is in getKeyfunc.
Resolving(f) == f.pc \in {"getKeyfunc", "getJWKSURI", "getJWKS", "NewJWKSetJSON"}

\* Call f has its resolver: getKeyfunc returned without error.
HasKeyfunc(f) == f.pc \in {"parseJWT", "rules"} \/ (f.pc = "done" /\ ~KeyfuncFailed(f))

\* C28: whatever the interleaving of the calls on one Verifier whose cache
\* starts empty, a call makes at most one discovery fetch and one JWKS
\* fetch, a call whose key resolution succeeds has a resolver built from a
\* complete 200 JWKS response, the cache holds nothing else, and a call
\* whose key resolution fails never writes the cache.
C28_ConcurrentResolution ==
    /\ [](
           /\ \A c \in ConcCalls :
               LET f == call[c] IN
               /\ AtMostOnce(f, "GET discovery")
               /\ AtMostOnce(f, "GET jwks")
               /\ HasKeyfunc(f) => f.kf \in GoodResolvers
               /\ (HasKeyfunc(f) /\ InLog(f, "cache.Get:miss")) =>
                      /\ f.resp = [transportErr |-> FALSE, status |-> StatusOK,
                                   readable |-> TRUE, body |-> f.data]
                      /\ f.kf = NewJWKSetJSON(f.data).keys
               /\ KeyfuncFailed(f) => ~InLog(f, "cache.Set")
           /\ cache.found => cache.keys \in GoodResolvers)
    /\ [][
           /\ \A c \in ConcCalls :
               (Resolving(call[c]) /\ KeyfuncFailed(call'[c])) => cache' = cache
           /\ cache' # cache =>
                  \/ cache' = NoEntry /\ call' = call
                  \/ \E c \in ConcCalls :
                        /\ call[c].pc = "NewJWKSetJSON" /\ HasKeyfunc(call'[c])
                        /\ cache' = [found |-> TRUE, keys |-> call'[c].kf]]_vars

\* Two calls missed together; one has stored a resolver, the other has
\* failed at the JWKS fetch, and the entry is still there.
C28_Witness ==
    \E c, d \in ConcCalls :
        /\ c # d
        /\ KeyfuncFailed(call[c])
        /\ call[c].log = <<"cache.Get:miss", "GET discovery", "GET jwks">>
        /\ HasKeyfunc(call[d])
        /\ InLog(call[d], "cache.Set")
        /\ cache = [found |-> TRUE, keys |-> call[d].kf]

====
